---- MODULE Spec2Model ----
(***************************************************************************)
(* The file-process route (src/src/app/api/file-process/route.ts): POST,   *)
(* processRequest, AnalyticsGenerator.generateAnalytics and                *)
(* AnalyticsGenerator.processMetric as one state machine.                  *)
(*                                                                         *)
(* JavaScript runs one macrotask at a time and drains the microtask queue  *)
(* after it.  A macrotask here is: a timer callback, the settlement of a   *)
(* service call, the completion of request.formData() or of a file's       *)
(* parse.  The continuations of generateAnalytics/processRequest that a    *)
(* settled promise wakes up are microtasks: they run before any further    *)
(* macrotask (OrchPending below).                                          *)
(*                                                                         *)
(* Timers.  The durations of request.formData(), of reading and parsing a *)
(* file and of a service call are not bounded by the code, so a pending    *)
(* setTimeout can be due at any point relative to them: a timer is either  *)
(* pending or not, and a pending timer may fire at any step.  What the     *)
(* delays do decide is the order of two timers set in the same turn of the *)
(* event loop: the one with the shorter delay fires first, and on equal    *)
(* delays the one set first (FiresBefore).  That holds between the 15 s    *)
(* timer of the deep race and the 10 s timers of the deep calls, which     *)
(* generateAnalytics sets in one turn.  A timer whose Promise.race is      *)
(* already settled fires into a settled promise and changes nothing, so it *)
(* is dropped when its race settles.                                       *)
(*                                                                         *)
(* Specifications.  Spec is the request state machine.  DispatchSpec runs  *)
(* its pre-checks and parses over filenames of every shape.  ChunkSpec is  *)
(* the loop of splitIntoChunks on any text and size, PromptSpec the path   *)
(* from the serialized document to the data text of a prompt.              *)
(***************************************************************************)
EXTENDS Integers, Sequences, FiniteSets, TLC

VARIABLES
    files,          \* formData.getAll('files'): the sizes (MB) of the uploads
    pc,             \* where processRequest is suspended
    idx,            \* index of the file the for-loop is at
    procs,          \* procs[f][m]: the processMetric call of file f, metric m
    aggTimer,       \* whether the 15 s timer of the current deep race is pending
    results,        \* processRequest's results array
    errors,         \* processRequest's errors array
    processReturn,  \* the value processRequest's promise resolved with
    response,       \* the response POST returned to the caller
    reqTimer,       \* whether the 58 s timer of POST is pending
    abandoned,      \* calls in flight whose race the timer won, that will settle
    parseLog,       \* the files FileProcessor.processFile was called for
    current,        \* file.name and processedData of the file the loop is at
    formattedData,  \* processLargeData: the serialized document, a character sequence
    size,           \* splitIntoChunks: its parameter size
    offset,         \* splitIntoChunks: its loop variable i
    chunks,         \* splitIntoChunks: its array chunks
    prompt          \* processMetric: the data text embedded in the prompt

(* The variables of the text pipeline (formatData, splitIntoChunks,         *)
(* truncateData), which the request state machine does not read.            *)
textVars == <<formattedData, size, offset, chunks, prompt>>

vars == <<files, pc, idx, procs, aggTimer, results, errors, processReturn,
          response, reqTimer, abandoned, parseLog, current, textVars>>

----------------------------------------------------------------------------
(* Bounds of the model *)

MaxFiles == 2
(* abandoned service calls followed until they settle; further ones are     *)
(* calls that never settle                                                  *)
MaxAbandoned == 1
(* maxChunkSize in characters (25000 at line 181), scaled to the text lengths *)
(* below; the one value is used by splitIntoChunks and by truncateData       *)
MaxChunkSize == 3
(* the longest serialized document, in characters *)
MaxLen == 7
(* the most dot-separated parts of a filename *)
MaxParts == 2

(* Program constants *)

CallTimeoutMs == 10000
DeepTimeoutMs == 15000
MaxFileSizeMB == 50
PrimaryRetries == 2
DeepRetries == 1

(* Timers that fire in any order, whatever their delays *)
FiresBefore_AnyOrder(d1, d2) == TRUE

(* Of two timers set in the same turn, the first with delay d1 and the     *)
(* second with delay d2: whether the first fires before the second.        *)
FiresBefore(d1, d2) == d1 <= d2

PrimaryMetrics == <<"Data Overview", "Key Metrics">>
DeepMetrics == <<"Statistical Analysis", "Data Distribution">>

Range(s) == {s[i] : i \in 1..Len(s)}
PrimarySet == Range(PrimaryMetrics)
DeepSet == Range(DeepMetrics)
AllMetrics == PrimarySet \cup DeepSet

(* The upload sizes a batch is drawn from, in MB: at and above the ceiling *)
FileSizes == {MaxFileSizeMB, MaxFileSizeMB + 1}

(* The uploads' names, as the parts between the dots of the filename *)
FileNames == {<<"data", "csv">>, <<"notes", "txt">>}

----------------------------------------------------------------------------
(* FileProcessor.processFile *)

ToLowerCase(s) ==
    CASE s = "CSV" -> "csv"
      [] s = "PDF" -> "pdf"
      [] s = "XLSX" -> "xlsx"
      [] s = "Xls" -> "xls"
      [] s = "TXT" -> "txt"
      [] OTHER -> s

(* filename.split('.').pop()?.toLowerCase() *)
Extension(name) == ToLowerCase(name[Len(name)])

(* The switch of processFile; decodes says whether the format's decoder     *)
(* accepts the bytes.  ok = FALSE is a raised Error with that message.      *)
ProcessFile(name, decodes) ==
    LET extension == Extension(name) IN
    CASE extension \in {"xlsx", "xls"} ->
            IF decodes THEN [ok |-> TRUE, type |-> "excel", error |-> ""]
            ELSE [ok |-> FALSE, type |-> "", error |-> "Failed to process Excel file"]
      [] extension = "csv" ->
            IF decodes THEN [ok |-> TRUE, type |-> "csv", error |-> ""]
            ELSE [ok |-> FALSE, type |-> "", error |-> "Failed to process CSV file"]
      [] extension = "pdf" ->
            IF decodes THEN [ok |-> TRUE, type |-> "pdf", error |-> ""]
            ELSE [ok |-> FALSE, type |-> "", error |-> "PDF processing failed"]
      [] OTHER -> [ok |-> FALSE, type |-> "", error |-> "Unsupported file type"]

----------------------------------------------------------------------------
(* AnalyticsGenerator: values *)

(* A value of a primary/deep mapping.  type tells a MetricResult object     *)
(* from a bare string; summary is the text it carries.                      *)
NoResult == [type |-> "none", summary |-> <<>>, recommendations |-> <<>>]

(* analysis[metric] of a parsed reply: returned as the service sent it *)
ServiceEntry(metric) ==
    [type |-> "MetricResult", summary |-> <<"detailed findings", metric>>,
     recommendations |-> <<"rec 1", metric>>]

GetFallbackMetric(metric) ==
    [type |-> "MetricResult", summary |-> <<"Analysis pending for", metric>>,
     recommendations |-> <<"Retry analysis for", metric>>]

(* getFallbackResponse: strings under the keys primary and deep_metrics *)
GetFallbackResponse ==
    [primary |-> [key \in PrimarySet |->
                    [type |-> "string", summary |-> <<"Analysis pending for", key>>,
                     recommendations |-> <<>>]],
     deep_metrics |-> [key \in DeepSet |->
                    [type |-> "string", summary |-> <<"Deep analysis pending for", key>>,
                     recommendations |-> <<>>]]]

(* The replies the service may give to the prompt for one metric: text that *)
(* may be wrapped in a Markdown code fence, that is a JSON object, a JSON   *)
(* scalar or no JSON at all, and whose analysis object holds these keys.    *)
Replies(metric) ==
    [fenced : BOOLEAN, json : {"object", "scalar", "invalid"},
     keys : {{metric}, {}}]

(* text.replace(/```json\n?|\n?```/g, '') *)
StripFences(reply) == [reply EXCEPT !.fenced = FALSE]

CannedPayload == [analysis |-> {"default"}]

(* safeParseResponse: JSON.parse of the cleaned text throws on a fence left *)
(* in or on invalid JSON, a non-object is rejected, and the catch returns   *)
(* the canned payload.  A payload is the key set of its analysis object.    *)
SafeParseResponse(reply) ==
    LET cleanText == StripFences(reply) IN
    IF cleanText.fenced \/ cleanText.json = "invalid" THEN CannedPayload
    ELSE IF cleanText.json # "object" THEN CannedPayload
    ELSE [analysis |-> cleanText.keys]

----------------------------------------------------------------------------
(* AnalyticsGenerator.processMetric: one call is a record                   *)
(*   st       idle | calling | backoff | returned | thrown                  *)
(*            (calling: generateContent and its 10 s timer are pending;     *)
(*             backoff: the 1 s timer of line 425 is pending)               *)
(*   attempt  the loop variable                                             *)
(*   retries  the parameter retries                                         *)
(*   calls    the generateContent calls it has issued                       *)
(*   raised   the attempts that ended in the catch block                    *)
(*   err      the error it threw                                            *)
(*   result   the value it returned                                         *)

IdleProc ==
    [st |-> "idle", attempt |-> 0, retries |-> 0, calls |-> 0,
     raised |-> 0, err |-> "none", result |-> NoResult]

(* The body of the try block up to the await of Promise.race: one          *)
(* generateContent call and its 10 s timer.                                 *)
IssueCall(p) ==
    [p EXCEPT !.st = "calling", !.calls = @ + 1]

(* for (let attempt = 0; attempt < retries; attempt++) entered from the top *)
StartMetric(metric, retries) ==
    IF 0 < retries THEN IssueCall([IdleProc EXCEPT !.retries = retries])
    ELSE [IdleProc EXCEPT !.st = "returned", !.retries = retries,
                          !.result = GetFallbackMetric(metric)]

(* NextAttempt with the loop test off by one *)
NextAttempt_OneMore(p, metric) ==
    IF p.attempt + 1 <= p.retries
    THEN IssueCall([p EXCEPT !.attempt = @ + 1])
    ELSE [p EXCEPT !.st = "returned", !.result = GetFallbackMetric(metric)]

(* attempt++ and the loop test; after the loop, return getFallbackMetric *)
NextAttempt(p, metric) ==
    IF p.attempt + 1 < p.retries
    THEN IssueCall([p EXCEPT !.attempt = @ + 1])
    ELSE [p EXCEPT !.st = "returned", !.result = GetFallbackMetric(metric)]

(* A reply without the entry answered by the fallback at once *)
OnResolve_FallbackAtOnce(p, metric, reply) ==
    LET result == SafeParseResponse(reply) IN
    IF metric \in result.analysis
    THEN [p EXCEPT !.st = "returned", !.result = ServiceEntry(metric)]
    ELSE [p EXCEPT !.st = "returned", !.result = GetFallbackMetric(metric)]

(* The race was won by the service call, which resolved with reply *)
OnResolve(p, metric, reply) ==
    LET result == SafeParseResponse(reply) IN
    IF metric \in result.analysis
    THEN [p EXCEPT !.st = "returned", !.result = ServiceEntry(metric)]
    ELSE NextAttempt(p, metric)

(* OnRaise without the rethrow of line 424 *)
OnRaise_Swallow(p, error) ==
    [p EXCEPT !.st = "backoff", !.raised = @ + 1]

(* A catch that gives up at the first raised error *)
OnRaise_GiveUp(p, error) ==
    [p EXCEPT !.st = "thrown", !.raised = @ + 1, !.err = error]

(* A catch that retries at once, without the backoff of line 425 *)
OnRaise_NoBackoff(p, error) ==
    IF p.attempt = p.retries - 1
    THEN [p EXCEPT !.st = "thrown", !.raised = @ + 1, !.err = error]
    ELSE IssueCall([p EXCEPT !.attempt = @ + 1, !.raised = @ + 1])

(* catch (error): rethrow on the last attempt, else start the 1 s backoff *)
OnRaise(p, error) ==
    IF p.attempt = p.retries - 1
    THEN [p EXCEPT !.st = "thrown", !.raised = @ + 1, !.err = error]
    ELSE [p EXCEPT !.st = "backoff", !.raised = @ + 1]

----------------------------------------------------------------------------
(* POST and processRequest: responses *)

NoResponse == [status |-> 0]

NoCurrent == [name |-> <<>>, type |-> ""]

Rejection(message) == [status |-> 400, success |-> FALSE, error |-> message]

TimeoutResponse ==
    [status |-> 500, success |-> FALSE, error |-> "Request timeout"]

BatchResponse(res, err) ==
    [status |-> 200, success |-> TRUE, results |-> res, errors |-> err,
     totalFiles |-> Len(files), successfulFiles |-> Len(res),
     failedFiles |-> Len(err)]

(* The size check applied to the first file only *)
SomeFileTooLarge_FirstOnly == Len(files) > 0 /\ files[1] > MaxFileSizeMB

(* files.some(file => file.size > 50 * 1024 * 1024), sizes in MB *)
SomeFileTooLarge == \E i \in 1..Len(files) : files[i] > MaxFileSizeMB

(* A race in which a later settlement replaces the response *)
PostRace_LastWins(value) == value

(* Promise.race([processPromise, timeoutPromise]): the first to settle is   *)
(* the response, a later settlement is ignored.                             *)
PostRace(value) == IF response = NoResponse THEN value ELSE response

(* processRequest returns value: its promise resolves and POST's race sees it *)
Return(value) ==
    /\ pc' = "done"
    /\ processReturn' = value
    /\ response' = PostRace(value)
    /\ reqTimer' = FALSE

(* The end of one iteration of for (const file of files): the next file,    *)
(* or the return of the batch response after the last one.                  *)
Advance(res, err) ==
    /\ current' = NoCurrent
    /\ IF idx < Len(files)
       THEN /\ idx' = idx + 1
            /\ pc' = "parse"
            /\ UNCHANGED <<processReturn, response, reqTimer>>
       ELSE /\ idx' = idx
            /\ Return(BatchResponse(res, err))

(* results.push({filename, processedData, analytics, timestamp}) *)
PushResult(analytics) ==
    Append(results, [file |-> idx, filename |-> current.name,
                     processedData |-> current.type, analytics |-> analytics])

(* errors.push({filename, error}) *)
PushError(name, message) ==
    Append(errors, [file |-> idx, filename |-> name, error |-> message])

----------------------------------------------------------------------------
(* generateAnalytics: the fan-outs and what the awaits see *)

Returned(f, metrics) == \A m \in metrics : procs[f][m].st = "returned"
Thrown(f, metrics) == \E m \in metrics : procs[f][m].st = "thrown"

(* Object.fromEntries of the [metric, result] pairs of a settled fan-out *)
ResultsOf(f, metrics) == [m \in metrics |-> procs[f][m].result]

(* A deep catch that keeps the deep results that had returned *)
DeepFallback_Salvage ==
    [m \in DeepSet |-> IF procs[idx][m].st = "returned" THEN procs[idx][m].result
                       ELSE GetFallbackMetric(m)]

(* section.subsections.deep.map(metric => [metric, getFallbackMetric(metric)]) *)
DeepFallback == [m \in DeepSet |-> GetFallbackMetric(m)]

(* Once the await of a fan-out has resumed, a settled processMetric promise *)
(* is only its value or its error: the locals of the call are gone.         *)
Settled(p) == p.st \in {"returned", "thrown"}
Consumed(p) ==
    IF Settled(p)
    THEN [IdleProc EXCEPT !.st = p.st, !.retries = p.retries, !.err = p.err,
                          !.result = p.result]
    ELSE p
Consume(f) ==
    [procs EXCEPT ![f] = [m \in AllMetrics |-> Consumed(procs[f][m])]]

(* A continuation of generateAnalytics is ready to run as a microtask *)
OrchPending ==
    \/ pc = "primary" /\ (Returned(idx, PrimarySet) \/ Thrown(idx, PrimarySet))
    \/ pc = "deep" /\ (Returned(idx, DeepSet) \/ Thrown(idx, DeepSet))

----------------------------------------------------------------------------
(* AnalyticsGenerator: the text pipeline of processLargeData (lines 313-334) *)
(* and truncateData (lines 431-435).  A string is the sequence of its        *)
(* characters (UTF-16 code units, which length and slice count).             *)

Chars == {"a", "."}

Min(a, b) == IF a < b THEN a ELSE b

(* The strings of length lo..hi *)
Strings(lo, hi) == UNION {[1..n -> Chars] : n \in lo..hi}

(* text.slice(from, to) for 0 <= from <= to: to is cut at text.length *)
Slice(text, from, to) == SubSeq(text, from + 1, Min(to, Len(text)))

NoPrompt == <<"none">>

(* No call of the pipeline is in progress *)
TextIdle ==
    /\ formattedData = <<>>
    /\ size = 0
    /\ offset = 0
    /\ chunks = <<>>
    /\ prompt = NoPrompt

(* splitIntoChunks(text, size) entered: chunks = [], i = 0 *)
SplitIntoChunks(text, n) ==
    /\ formattedData = text
    /\ size = n
    /\ offset = 0
    /\ chunks = <<>>
    /\ prompt = NoPrompt

(* The loop of splitIntoChunks has ended *)
SplitDone == offset >= Len(formattedData)

(* A loop that stops before a chunk shorter than size *)
SplitStep_WholeChunksOnly ==
    /\ offset + size <= Len(formattedData)
    /\ chunks' = Append(chunks, Slice(formattedData, offset, offset + size))
    /\ offset' = offset + size
    /\ UNCHANGED <<formattedData, size, prompt>>
    /\ UNCHANGED <<files, pc, idx, procs, aggTimer, results, errors,
                   processReturn, response, reqTimer, abandoned, parseLog,
                   current>>

(* for (let i = 0; i < text.length; i += size), i being offset:            *)
(*     chunks.push(text.slice(i, i + size))                                 *)
SplitStep ==
    /\ offset < Len(formattedData)
    /\ chunks' = Append(chunks, Slice(formattedData, offset, offset + size))
    /\ offset' = offset + size
    /\ UNCHANGED <<formattedData, size, prompt>>
    /\ UNCHANGED <<files, pc, idx, procs, aggTimer, results, errors,
                   processReturn, response, reqTimer, abandoned, parseLog,
                   current>>

(* processLargeData passing the whole serialized text on *)
ProcessLargeData_Whole == formattedData

(* processLargeData, line 317: return chunks[0] *)
ProcessLargeData == chunks[1]

(* truncateData, with this.maxChunkSize *)
TruncateData(data) ==
    IF Len(data) > MaxChunkSize
    THEN Slice(data, 0, MaxChunkSize) \o <<".", ".", ".">>
    ELSE data

(* processMetric, lines 405-406: processLargeData has returned and the      *)
(* prompt is built around truncateData(data).                               *)
BuildPrompt ==
    /\ SplitDone
    /\ prompt = NoPrompt
    /\ prompt' = TruncateData(ProcessLargeData)
    /\ UNCHANGED <<formattedData, size, offset, chunks>>
    /\ UNCHANGED <<files, pc, idx, procs, aggTimer, results, errors,
                   processReturn, response, reqTimer, abandoned, parseLog,
                   current>>

----------------------------------------------------------------------------
(* State after POST has created its 58 s timer and called processRequest,   *)
(* which is suspended at await request.formData().                          *)

Batches == UNION {[1..n -> FileSizes] : n \in 0..MaxFiles}

Init ==
    /\ files \in Batches
    /\ pc = "formData"
    /\ idx = 0
    /\ procs = [f \in 1..MaxFiles |-> [m \in AllMetrics |-> IdleProc]]
    /\ aggTimer = FALSE
    /\ results = <<>>
    /\ errors = <<>>
    /\ processReturn = NoResponse
    /\ response = NoResponse
    /\ reqTimer = TRUE
    /\ abandoned = 0
    /\ parseLog = {}
    /\ current = NoCurrent
    /\ TextIdle

(* processRequest, lines 463-473: formData arrives, the two pre-checks *)
PreCheck ==
    /\ UNCHANGED textVars
    /\ pc = "formData"
    /\ UNCHANGED <<files, procs, aggTimer, results, errors, abandoned,
                   parseLog, current>>
    /\ IF Len(files) = 0
       THEN idx' = idx /\ Return(Rejection("No files provided"))
       ELSE IF SomeFileTooLarge
       THEN idx' = idx /\ Return(Rejection("File size exceeds 50MB limit"))
       ELSE /\ idx' = 1
            /\ pc' = "parse"
            /\ UNCHANGED <<processReturn, response, reqTimer>>

(* The processMetric calls of the files before file f that have settled:    *)
(* nothing refers to them once the next iteration has its own generator.    *)
CollectedProc == [IdleProc EXCEPT !.st = "collected"]
Collect(f) ==
    [g \in 1..MaxFiles |-> [m \in AllMetrics |->
        IF g < f /\ Settled(procs[g][m]) THEN CollectedProc ELSE procs[g][m]]]

(* ParseOk starting the primary calls of the later files as well *)
ParseOk_Parallel(name, decodes) ==
    LET processedData == ProcessFile(name, decodes) IN
    /\ UNCHANGED textVars
    /\ pc = "parse"
    /\ processedData.ok
    /\ parseLog' = parseLog \cup {idx}
    /\ current' = [name |-> name, type |-> processedData.type]
    /\ procs' = [f \in 1..MaxFiles |-> [m \in AllMetrics |->
                    IF f >= idx /\ f <= Len(files) /\ m \in PrimarySet
                       /\ procs[f][m].st = "idle"
                    THEN StartMetric(m, PrimaryRetries)
                    ELSE procs[f][m]]]
    /\ pc' = "primary"
    /\ UNCHANGED <<files, idx, aggTimer, results, errors, processReturn,
                   response, reqTimer, abandoned>>

(* processRequest, lines 481-508: the file's bytes are read and parsed;     *)
(* on success generateAnalytics runs up to its first await, which starts    *)
(* processMetric for every primary metric.                                  *)
ParseOk(name, decodes) ==
    LET processedData == ProcessFile(name, decodes) IN
    /\ UNCHANGED textVars
    /\ pc = "parse"
    /\ processedData.ok
    /\ parseLog' = parseLog \cup {idx}
    /\ current' = [name |-> name, type |-> processedData.type]
    /\ procs' = [Collect(idx) EXCEPT ![idx] =
                    [m \in AllMetrics |->
                        IF m \in PrimarySet THEN StartMetric(m, PrimaryRetries)
                        ELSE procs[idx][m]]]
    /\ pc' = "primary"
    /\ UNCHANGED <<files, idx, aggTimer, results, errors, processReturn,
                   response, reqTimer, abandoned>>

(* ParseFails ending the loop at the failing file *)
ParseFails_Abort(name, decodes) ==
    LET processedData == ProcessFile(name, decodes) IN
    /\ UNCHANGED textVars
    /\ pc = "parse"
    /\ ~processedData.ok
    /\ parseLog' = parseLog \cup {idx}
    /\ errors' = PushError(name, processedData.error)
    /\ current' = NoCurrent
    /\ idx' = idx
    /\ Return(BatchResponse(results, errors'))
    /\ procs' = Collect(idx)
    /\ UNCHANGED <<files, aggTimer, results, abandoned>>

(* processRequest, lines 481-482 and 517-523: processFile raises *)
ParseFails(name, decodes) ==
    LET processedData == ProcessFile(name, decodes) IN
    /\ UNCHANGED textVars
    /\ pc = "parse"
    /\ ~processedData.ok
    /\ parseLog' = parseLog \cup {idx}
    /\ errors' = PushError(name, processedData.error)
    /\ Advance(results, errors')
    /\ procs' = Collect(idx)
    /\ UNCHANGED <<files, aggTimer, results, abandoned>>

(* A fan-in that starts the deep tier as soon as one primary metric has     *)
(* returned                                                                 *)
PrimaryFanIn_Eager ==
    /\ UNCHANGED textVars
    /\ pc = "primary"
    /\ \E m \in PrimarySet : procs[idx][m].st = "returned"
    /\ procs' = [procs EXCEPT ![idx] =
                    [m \in AllMetrics |->
                        IF m \in DeepSet THEN StartMetric(m, DeepRetries)
                        ELSE Consumed(procs[idx][m])]]
    /\ aggTimer' = TRUE
    /\ pc' = "deep"
    /\ UNCHANGED <<files, idx, results, errors, processReturn, response,
                   reqTimer, abandoned, parseLog, current>>

(* generateAnalytics, lines 202-222: every primary processMetric returned;  *)
(* the deep fan-out and its 15 s timer start.  Without deep metrics the     *)
(* outcome is returned at once (lines 231-234) and pushed (line 510).       *)
PrimaryFanIn ==
    /\ UNCHANGED textVars
    /\ pc = "primary"
    /\ Returned(idx, PrimarySet)
    /\ UNCHANGED <<files, errors, abandoned, parseLog>>
    /\ IF Len(DeepMetrics) > 0
       THEN /\ procs' = [procs EXCEPT ![idx] =
                            [m \in AllMetrics |->
                                IF m \in DeepSet THEN StartMetric(m, DeepRetries)
                                ELSE Consumed(procs[idx][m])]]
            /\ aggTimer' = TRUE
            /\ pc' = "deep"
            /\ UNCHANGED <<idx, results, processReturn, response, reqTimer,
                           current>>
       ELSE /\ results' = PushResult([primary |-> ResultsOf(idx, PrimarySet),
                                      deep |-> <<>>])
            /\ Advance(results', errors)
            /\ procs' = Consume(idx)
            /\ UNCHANGED aggTimer

(* generateAnalytics without its outer catch: the error reaches the catch
   of processRequest (lines 517-522) *)
PrimaryFails_Propagate ==
    /\ UNCHANGED textVars
    /\ pc = "primary"
    /\ Thrown(idx, PrimarySet)
    /\ errors' = PushError(current.name, "Service error")
    /\ Advance(results, errors')
    /\ procs' = Consume(idx)
    /\ UNCHANGED <<files, aggTimer, results, abandoned, parseLog>>

(* generateAnalytics, lines 236-239: a primary processMetric threw, the     *)
(* Promise.all of line 202 rejects, the outer catch returns                 *)
(* getFallbackResponse; processRequest pushes it (line 510).                *)
PrimaryFails ==
    /\ UNCHANGED textVars
    /\ pc = "primary"
    /\ Thrown(idx, PrimarySet)
    /\ results' = PushResult(GetFallbackResponse)
    /\ Advance(results', errors)
    /\ procs' = Consume(idx)
    /\ UNCHANGED <<files, aggTimer, errors, abandoned, parseLog>>

(* generateAnalytics, lines 222 and 231-234: the deep Promise.all resolved *)
DeepFanIn ==
    /\ UNCHANGED textVars
    /\ pc = "deep"
    /\ Returned(idx, DeepSet)
    /\ results' = PushResult([primary |-> ResultsOf(idx, PrimarySet),
                              deep |-> ResultsOf(idx, DeepSet)])
    /\ aggTimer' = FALSE
    /\ Advance(results', errors)
    /\ procs' = Consume(idx)
    /\ UNCHANGED <<files, errors, abandoned, parseLog>>

(* The 15 s timer of line 219 is set before the 10 s timers of the deep     *)
(* calls (line 418), in the same turn: it can fire only when it comes       *)
(* before every deep call timer still pending.                              *)
AggTimerDue ==
    /\ aggTimer
    /\ \A m \in DeepSet : procs[idx][m].st = "calling"
                            => FiresBefore(DeepTimeoutMs, CallTimeoutMs)

(* A deep rejection that reaches the outer catch of generateAnalytics *)
DeepCatch_Propagate ==
    /\ UNCHANGED textVars
    /\ pc = "deep"
    /\ Thrown(idx, DeepSet) \/ (~OrchPending /\ AggTimerDue)
    /\ results' = PushResult(GetFallbackResponse)
    /\ aggTimer' = FALSE
    /\ Advance(results', errors)
    /\ procs' = Consume(idx)
    /\ UNCHANGED <<files, errors, abandoned, parseLog>>

(* generateAnalytics, lines 223-228 and 231-234: the deep race rejected,    *)
(* by a deep processMetric that threw or by the 15 s timer; the catch puts  *)
(* the fallback under every deep metric name.                               *)
DeepCatch ==
    /\ UNCHANGED textVars
    /\ pc = "deep"
    /\ Thrown(idx, DeepSet) \/ (~OrchPending /\ AggTimerDue)
    /\ results' = PushResult([primary |-> ResultsOf(idx, PrimarySet),
                              deep |-> DeepFallback])
    /\ aggTimer' = FALSE
    /\ Advance(results', errors)
    /\ procs' = Consume(idx)
    /\ UNCHANGED <<files, errors, abandoned, parseLog>>

(* processMetric, lines 408-422: the generateContent call of the attempt    *)
(* in progress resolves before its 10 s timer.                              *)
ServiceResolves(f, m, reply) ==
    /\ UNCHANGED textVars
    /\ ~OrchPending
    /\ procs[f][m].st = "calling"
    /\ procs' = [procs EXCEPT ![f][m] = OnResolve(@, m, reply)]
    /\ UNCHANGED <<files, pc, idx, aggTimer, results, errors, processReturn,
                   response, reqTimer, abandoned, parseLog, current>>

(* processMetric, lines 408-409 and 423-426: the generateContent call of    *)
(* the attempt in progress rejects before its 10 s timer.                   *)
ServiceRejects(f, m) ==
    /\ UNCHANGED textVars
    /\ ~OrchPending
    /\ procs[f][m].st = "calling"
    /\ procs' = [procs EXCEPT ![f][m] = OnRaise(@, "Service error")]
    /\ UNCHANGED <<files, pc, idx, aggTimer, results, errors, processReturn,
                   response, reqTimer, abandoned, parseLog, current>>

(* processMetric, lines 418 and 423-426: the 10 s timer wins the race; the  *)
(* generateContent call stays in flight, and settles later or never.        *)
CallTimerFires(f, m, settlesLater) ==
    /\ UNCHANGED textVars
    /\ ~OrchPending
    /\ procs[f][m].st = "calling"
    /\ procs' = [procs EXCEPT ![f][m] = OnRaise(@, "Generation timeout")]
    /\ settlesLater => abandoned < MaxAbandoned
    /\ abandoned' = IF settlesLater THEN abandoned + 1 ELSE abandoned
    /\ UNCHANGED <<files, pc, idx, aggTimer, results, errors, processReturn,
                   response, reqTimer, parseLog, current>>

(* processMetric, line 425 and the loop head: the backoff is over *)
BackoffEnds(f, m) ==
    /\ UNCHANGED textVars
    /\ ~OrchPending
    /\ procs[f][m].st = "backoff"
    /\ procs' = [procs EXCEPT ![f][m] = NextAttempt(@, m)]
    /\ UNCHANGED <<files, pc, idx, aggTimer, results, errors, processReturn,
                   response, reqTimer, abandoned, parseLog, current>>

(* The late reply of an abandoned call delivered to a processMetric call    *)
(* that had seen an attempt raise                                           *)
AbandonedSettles_Delivers ==
    /\ UNCHANGED textVars
    /\ ~OrchPending
    /\ abandoned > 0
    /\ abandoned' = abandoned - 1
    /\ \E f \in 1..MaxFiles, m \in AllMetrics :
          /\ procs[f][m].raised > 0
          /\ procs' = [procs EXCEPT ![f][m] =
                          [@ EXCEPT !.st = "returned", !.result = ServiceEntry(m)]]
    /\ UNCHANGED <<files, pc, idx, aggTimer, results, errors,
                   processReturn, response, reqTimer, parseLog, current>>

(* A generateContent call whose race the timer won settles: Promise.race    *)
(* has settled already and nothing awaits the call.                         *)
AbandonedSettles ==
    /\ UNCHANGED textVars
    /\ ~OrchPending
    /\ abandoned > 0
    /\ abandoned' = abandoned - 1
    /\ UNCHANGED <<files, pc, idx, procs, aggTimer, results, errors,
                   processReturn, response, reqTimer, parseLog, current>>

(* POST, lines 442-458: the 58 s timer rejects and the race is not settled *)
RequestTimerFires ==
    /\ UNCHANGED textVars
    /\ ~OrchPending
    /\ reqTimer
    /\ response' = PostRace(TimeoutResponse)
    /\ reqTimer' = FALSE
    /\ UNCHANGED <<files, pc, idx, procs, aggTimer, results, errors,
                   processReturn, abandoned, parseLog, current>>

Next ==
    \/ PreCheck
    \/ \E name \in FileNames, decodes \in BOOLEAN : ParseOk(name, decodes)
    \/ \E name \in FileNames, decodes \in BOOLEAN : ParseFails(name, decodes)
    \/ PrimaryFanIn
    \/ PrimaryFails
    \/ DeepFanIn
    \/ DeepCatch
    \/ \E f \in 1..MaxFiles, m \in AllMetrics :
            \E reply \in Replies(m) : ServiceResolves(f, m, reply)
    \/ \E f \in 1..MaxFiles, m \in AllMetrics : ServiceRejects(f, m)
    \/ \E f \in 1..MaxFiles, m \in AllMetrics :
            \E settlesLater \in BOOLEAN : CallTimerFires(f, m, settlesLater)
    \/ \E f \in 1..MaxFiles, m \in AllMetrics : BackoffEnds(f, m)
    \/ AbandonedSettles
    \/ RequestTimerFires

Spec == Init /\ [][Next]_vars

----------------------------------------------------------------------------
(* FileProcessor.processFile over filenames of every shape: the request     *)
(* state machine up to the point where a file's parse has succeeded or      *)
(* every file's parse has failed.                                           *)

(* The parts of a filename that filename.split('.') yields *)
Parts == {"data", "csv", "CSV", "pdf", "PDF", "xlsx", "xls", "Xls", "txt", ""}

(* Filenames as their parts: <<"csv">> is the name csv without a dot,       *)
(* <<"data", "">> the name data. with a trailing dot.                       *)
DispatchNames == UNION {[1..n -> Parts] : n \in 1..MaxParts}

DispatchNext ==
    \/ PreCheck
    \/ \E name \in DispatchNames, decodes \in BOOLEAN : ParseOk(name, decodes)
    \/ \E name \in DispatchNames, decodes \in BOOLEAN : ParseFails(name, decodes)

DispatchSpec == Init /\ [][DispatchNext]_vars

----------------------------------------------------------------------------
(* The text pipeline on its own: no request is being processed *)

NoRequest ==
    /\ files = <<>>
    /\ pc = "formData"
    /\ idx = 0
    /\ procs = [f \in 1..MaxFiles |-> [m \in AllMetrics |-> IdleProc]]
    /\ aggTimer = FALSE
    /\ results = <<>>
    /\ errors = <<>>
    /\ processReturn = NoResponse
    /\ response = NoResponse
    /\ reqTimer = TRUE
    /\ abandoned = 0
    /\ parseLog = {}
    /\ current = NoCurrent

(* splitIntoChunks called with any text and any size >= 1 *)
ChunkInit ==
    /\ NoRequest
    /\ \E text \in Strings(0, MaxLen), n \in 1..MaxChunkSize :
            SplitIntoChunks(text, n)

ChunkNext == SplitStep

ChunkSpec == ChunkInit /\ [][ChunkNext]_vars

(* processMetric, lines 405-406, for one attempt: formatData is             *)
(* JSON.stringify of the parsed document, an object, so the serialized      *)
(* text has at least the two characters of its brackets; processLargeData   *)
(* calls splitIntoChunks with this.maxChunkSize (line 316).                 *)
PromptInit ==
    /\ NoRequest
    /\ \E text \in Strings(2, MaxLen) : SplitIntoChunks(text, MaxChunkSize)

PromptNext ==
    \/ SplitStep
    \/ BuildPrompt

PromptSpec == PromptInit /\ [][PromptNext]_vars

----------------------------------------------------------------------------
(* Properties *)

Files == 1..MaxFiles

(* A processMetric call that has run and whose locals are still in view *)
Ran(p) == p.calls > 0

(* The files with an entry in a results or an errors sequence *)
FilesOf(seq) == {seq[k].file : k \in 1..Len(seq)}

Increasing(seq) == \A j, k \in 1..Len(seq) : j < k => seq[j].file < seq[k].file

IsMetricResult(v) == v.type = "MetricResult"

(* C1, as claimed: a processMetric call (maxAttempts 1 or 2) whose every    *)
(* service call raised returns the fallback MetricResult and never raises.  *)
C1_FallbackWhenAllRaise ==
    \A f \in Files, m \in AllMetrics :
        LET p == procs[f][m] IN
        (Settled(p) /\ Ran(p) /\ p.raised = p.calls)
            => (p.st = "returned" /\ p.result = GetFallbackMetric(m))

(* C1, amended: a processMetric call whose every service call raised has    *)
(* made maxAttempts attempts and ends by rethrowing the error of the last   *)
(* one; a call that returns the fallback MetricResult has used maxAttempts  *)
(* attempts and its last attempt completed without raising.                 *)
C1_RethrowWhenAllRaise ==
    \A f \in Files, m \in AllMetrics :
        LET p == procs[f][m] IN
        /\ (Settled(p) /\ Ran(p) /\ p.raised = p.calls)
              => /\ p.st = "thrown"
                 /\ p.calls = p.retries
                 /\ p.err \in {"Service error", "Generation timeout"}
                 /\ p.result = NoResult
        /\ (p.st = "returned" /\ Ran(p) /\ p.result = GetFallbackMetric(m))
              => (p.calls = p.retries /\ p.raised < p.calls)

(* C1 witness: a primary call and a deep call have both ended after every   *)
(* one of their service calls raised.                                       *)
C1_Witness ==
    \E f \in Files, m \in PrimarySet, g \in Files, d \in DeepSet :
        /\ procs[f][m].st = "thrown" /\ procs[f][m].raised = 2
        /\ procs[g][d].st = "thrown" /\ procs[g][d].raised = 1

(* C2: a processMetric call issues at most maxAttempts service calls (2 for *)
(* a primary metric, 1 for a deep metric), one per attempt, and exactly     *)
(* maxAttempts when every one of them raised.                               *)
C2_AttemptBudget ==
    \A f \in Files, m \in AllMetrics :
        LET p == procs[f][m] IN
        /\ p.calls <= (IF m \in PrimarySet THEN 2 ELSE 1)
        /\ p.st \in {"calling", "backoff"} => p.calls = p.attempt + 1
        /\ (Settled(p) /\ Ran(p)) => p.calls = p.attempt + 1
        /\ (Settled(p) /\ Ran(p) /\ p.raised = p.calls)
              => p.calls = (IF m \in PrimarySet THEN 2 ELSE 1)

(* C2 witness: a primary call that ended after two service calls, the first *)
(* raised and the second answered, beside one that ended after one call.    *)
C2_Witness ==
    \E f \in Files, m, n \in PrimarySet :
        /\ procs[f][m].st = "returned" /\ procs[f][m].calls = 2
        /\ procs[f][m].raised = 1
        /\ procs[f][n].st = "returned" /\ procs[f][n].calls = 1

(* C3, as claimed: every analytics outcome in results has a primary and a   *)
(* deep mapping keyed by the section's primary and deep metric names, and   *)
(* every value is a MetricResult.                                           *)
C3_OutcomeShape ==
    \A k \in 1..Len(results) :
        LET a == results[k].analytics IN
        /\ DOMAIN a = {"primary", "deep"}
        /\ DOMAIN a.primary = PrimarySet
        /\ DOMAIN a.deep = DeepSet
        /\ \A m \in PrimarySet : IsMetricResult(a.primary[m])
        /\ \A m \in DeepSet : IsMetricResult(a.deep[m])

(* The entry of results for file f, and whether there is one *)
InResults(f) == f \in FilesOf(results)
InErrors(f) == f \in FilesOf(errors)
EntryOf(f) == results[CHOOSE k \in 1..Len(results) : results[k].file = f]

(* C4: a file whose deep fan-out was rejected before every deep call had    *)
(* returned (its service calls never resolved and a 10 s timer fired, or    *)
(* the 15 s timer fired) is still recorded, with the fallback MetricResult  *)
(* under every deep metric name and the primary results as they were        *)
(* produced.                                                                *)
C4_DeepFallbackKeepsPrimary ==
    \A f \in Files :
        (InResults(f) /\ \E m \in DeepSet : procs[f][m].st \in {"thrown", "calling"})
            => LET a == EntryOf(f).analytics IN
               /\ DOMAIN a = {"primary", "deep"}
               /\ \A m \in DeepSet : a.deep[m] = GetFallbackMetric(m)
               /\ \A m \in PrimarySet :
                     /\ procs[f][m].st \in {"returned", "collected"}
                     /\ procs[f][m].st = "returned"
                           => a.primary[m] = procs[f][m].result
                     /\ a.primary[m] \in {ServiceEntry(m), GetFallbackMetric(m)}

(* C4 witness: a recorded file none of whose deep service calls resolved:   *)
(* one deep call timed out, the other is still in flight; a primary metric  *)
(* keeps the entry the service gave.                                        *)
C4_Witness ==
    \E f \in Files, m, n \in DeepSet, q \in PrimarySet :
        /\ InResults(f)
        /\ procs[f][m].st = "thrown" /\ procs[f][m].err = "Generation timeout"
        /\ procs[f][n].st = "calling"
        /\ EntryOf(f).analytics.deep = [d \in DeepSet |-> GetFallbackMetric(d)]
        /\ procs[f][q].st = "returned"
        /\ EntryOf(f).analytics.primary[q] = ServiceEntry(q)

(* C5, as claimed: whatever the primary metrics did, the deep service calls *)
(* of a recorded file were issued and its outcome holds deep results; and   *)
(* whatever the deep tier did, the primary results are the ones produced.   *)
C5_TiersIndependent ==
    \A f \in Files :
        InResults(f)
            => LET a == EntryOf(f).analytics IN
               /\ \A m \in DeepSet : procs[f][m].st # "idle"
               /\ "deep" \in DOMAIN a
               /\ \A m \in PrimarySet :
                     procs[f][m].st = "returned" => a.primary[m] = procs[f][m].result

(* C6: the batch response of a batch that passed the pre-checks holds every *)
(* uploaded file in exactly one of results and errors, both in upload       *)
(* order, errors holding the files whose parse raised, and its counts are   *)
(* the number of files and the two lengths.                                 *)
C6_BatchAccounting ==
    /\ Increasing(results) /\ Increasing(errors)
    /\ FilesOf(results) \cap FilesOf(errors) = {}
    /\ FilesOf(results) \cup FilesOf(errors) \subseteq parseLog
    /\ \A k \in 1..Len(errors) :
          errors[k].error \in {"Unsupported file type", "Failed to process CSV file",
                               "Failed to process Excel file", "PDF processing failed"}
    /\ processReturn.status = 200
          => /\ processReturn.results = results /\ processReturn.errors = errors
             /\ FilesOf(results) \cup FilesOf(errors) = 1..Len(files)
             /\ Len(results) + Len(errors) = Len(files)
             /\ processReturn.totalFiles = Len(files)
             /\ processReturn.successfulFiles = Len(results)
             /\ processReturn.failedFiles = Len(errors)
             /\ processReturn.successfulFiles + processReturn.failedFiles
                   = processReturn.totalFiles
    /\ response.status = 200 => response = processReturn

(* C6 witness: a two-file batch answered with the first file in errors and  *)
(* the second, processed after it, in results.                              *)
C6_Witness ==
    /\ response.status = 200
    /\ response.totalFiles = 2
    /\ response.successfulFiles = 1 /\ response.failedFiles = 1
    /\ response.errors[1].file = 1
    /\ response.results[1].file = 2

(* Work for file f has begun: its read and parse, or a service call for it *)
Begun(f) ==
    \/ f \in parseLog
    \/ pc \in {"parse", "primary", "deep"} /\ idx = f
    \/ \E m \in AllMetrics : procs[f][m].st # "idle"

(* C7: no parse and no service call for a file begins before every file     *)
(* uploaded before it has its entry in results or in errors.                *)
C7_Sequential ==
    \A f \in Files : Begun(f) => \A g \in 1..(f - 1) : InResults(g) \/ InErrors(g)

(* C7 witness: service calls of the second file are in flight while a call  *)
(* the first file left behind is still running, the first file recorded.    *)
C7_Witness ==
    /\ MaxFiles >= 2
    /\ InResults(1)
    /\ \E m \in AllMetrics : procs[1][m].st = "calling"
    /\ \E m \in AllMetrics : procs[2][m].st = "calling"

(* C8: an empty batch is answered 'No files provided' and a batch with a    *)
(* file above the 50 MB ceiling 'File size exceeds 50MB limit', and for     *)
(* such a batch no file is ever parsed, no service call issued, and results *)
(* and errors stay empty.                                                   *)
C8_PreCheckRejects ==
    (Len(files) = 0 \/ \E i \in 1..Len(files) : files[i] > 50)
        => /\ pc \in {"formData", "done"}
           /\ parseLog = {}
           /\ \A f \in Files, m \in AllMetrics : procs[f][m].st = "idle"
           /\ results = <<>> /\ errors = <<>>
           /\ pc = "done" =>
                 processReturn =
                    [status |-> 400, success |-> FALSE,
                     error |-> IF Len(files) = 0 THEN "No files provided"
                               ELSE "File size exceeds 50MB limit"]
           /\ response \in {NoResponse, processReturn, TimeoutResponse}

(* C8 witness: a batch whose first file is at the ceiling and whose second  *)
(* is above it has been rejected.                                           *)
C8_Witness ==
    /\ Len(files) = 2 /\ files[1] = 50 /\ files[2] = 51
    /\ response = Rejection("File size exceeds 50MB limit")

(* The response is complete: the batch response over every uploaded file *)
CompleteBatch(r) ==
    /\ r.status = 200
    /\ FilesOf(r.results) \cup FilesOf(r.errors) = 1..Len(files)
    /\ Len(r.results) + Len(r.errors) = Len(files)

(* C9: for a batch that passed the pre-checks the response, once given, is  *)
(* either the complete batch response or the timeout failure without        *)
(* results and errors, and nothing that happens later changes it.           *)
C9_AllOrNothing ==
    /\ [](pc \notin {"formData"} /\ ~(Len(files) = 0 \/ SomeFileTooLarge)
            => \/ response = NoResponse
               \/ CompleteBatch(response) /\ response = processReturn
               \/ /\ response = [status |-> 500, success |-> FALSE,
                                  error |-> "Request timeout"]
                  /\ DOMAIN response \cap {"results", "errors"} = {})
    /\ [][response # NoResponse => response' = response]_vars

(* C9 witness: the timeout failure was returned, and the batch completed    *)
(* afterwards with a result and an error without changing it.               *)
C9_Witness ==
    /\ response = TimeoutResponse
    /\ processReturn.status = 200
    /\ Len(processReturn.results) = 1 /\ Len(processReturn.errors) = 1

(* C10: a file whose parse succeeded, so that generateAnalytics ran for it, *)
(* is never in errors, and once the loop has passed it, it is in results    *)
(* with an analytics outcome, whatever the service did.                     *)
C10_NoDriverErrorEscapes ==
    \A f \in Files :
        (\E m \in AllMetrics : procs[f][m].st # "idle")
            => /\ ~InErrors(f)
               /\ (idx > f \/ pc = "done")
                     => (InResults(f) /\ "primary" \in DOMAIN EntryOf(f).analytics)

(* C10 witness: a batch answered with no errors although a primary metric   *)
(* of the second file exhausted its attempts by raising and the deep        *)
(* mapping of the first holds only fallbacks.                               *)
C10_Witness ==
    /\ response.status = 200 /\ Len(response.results) = 2 /\ errors = <<>>
    /\ \E m \in PrimarySet : procs[2][m].st = "thrown"
    /\ "deep" \in DOMAIN response.results[1].analytics
    /\ \A d \in DeepSet :
          response.results[1].analytics.deep[d] = GetFallbackMetric(d)

(* The extension of a filename given by its parts: the part after the last  *)
(* dot, lower-cased; a name without a dot has none.                         *)
FilenameExtension(name) ==
    IF Len(name) >= 2 THEN ToLowerCase(name[Len(name)]) ELSE "none"

(* The variant an extension stands for, "none" for an unrecognized one *)
VariantOf(extension) ==
    CASE extension \in {"xlsx", "xls"} -> "excel"
      [] extension = "csv" -> "csv"
      [] extension = "pdf" -> "pdf"
      [] OTHER -> "none"

FormatErrors ==
    {"Failed to process Excel file", "Failed to process CSV file",
     "PDF processing failed"}

(* C11, as claimed: a file is parsed into a variant only when its filename  *)
(* has a recognized extension, and into the variant of that extension; a    *)
(* file whose filename has no recognized extension fails with 'Unsupported  *)
(* file type', never with the error of a format's parser, and a file with a *)
(* recognized extension never fails with 'Unsupported file type'.           *)
C11_DispatchOnExtension ==
    /\ current # NoCurrent
          => /\ VariantOf(FilenameExtension(current.name)) # "none"
             /\ current.type = VariantOf(FilenameExtension(current.name))
    /\ \A k \in 1..Len(errors) :
          IF VariantOf(FilenameExtension(errors[k].filename)) = "none"
          THEN errors[k].error = "Unsupported file type"
          ELSE errors[k].error \in FormatErrors

(* ceil(l / n) for n >= 1 *)
Ceil(l, n) == (l + n - 1) \div n

(* The concatenation of the first k strings of a sequence of strings *)
RECURSIVE ConcatTo(_, _)
ConcatTo(seq, k) == IF k = 0 THEN <<>> ELSE ConcatTo(seq, k - 1) \o seq[k]

(* C12: when the loop of splitIntoChunks(text, N) has ended, for a text of  *)
(* length L and N >= 1, chunks holds exactly ceil(L/N) chunks, each of at   *)
(* most N characters and all but the last of exactly N, and their           *)
(* concatenation in order is the text.                                      *)
C12_ChunkPartition ==
    (size >= 1 /\ ~ENABLED SplitStep)
        => /\ Len(chunks) = Ceil(Len(formattedData), size)
           /\ \A k \in 1..Len(chunks) :
                 /\ Len(chunks[k]) <= size
                 /\ k < Len(chunks) => Len(chunks[k]) = size
           /\ ConcatTo(chunks, Len(chunks)) = formattedData

(* C12 witness: a text of 7 characters split with N = 3 into three chunks,  *)
(* the last of one character.                                               *)
C12_Witness ==
    /\ ~ENABLED SplitStep
    /\ Len(formattedData) = 7 /\ size = 3
    /\ Len(chunks) = 3 /\ Len(chunks[3]) = 1

(* C13: a service call that raises (the service rejects, or the 10 s timer  *)
(* wins) on an attempt that is not the last leaves processMetric unsettled, *)
(* waiting to make a further attempt, which it then makes; one that raises  *)
(* on the last attempt makes processMetric throw that very error; and       *)
(* processMetric throws in no other way.                                    *)
C13_ErrorPropagation ==
    [][\A f \in Files, m \in AllMetrics :
        LET p == procs[f][m]
            q == procs'[f][m]
            timedOut == \E settlesLater \in BOOLEAN :
                            CallTimerFires(f, m, settlesLater)
        IN
        q # p =>
        /\ (p.st = "calling" /\ (ServiceRejects(f, m) \/ timedOut))
              => IF p.attempt < p.retries - 1
                 THEN q.st = "backoff" /\ q.err = "none" /\ q.result = NoResult
                 ELSE q.st = "thrown" /\ q.result = NoResult
        /\ (q.st = "thrown" /\ ServiceRejects(f, m)) => q.err = "Service error"
        /\ (q.st = "thrown" /\ timedOut) => q.err = "Generation timeout"
        /\ p.st = "backoff"
              => (q.st = "calling" /\ q.attempt = p.attempt + 1)
        /\ (q.st = "thrown" /\ p.st # "thrown")
              => (p.st = "calling" /\ p.attempt = p.retries - 1)
    ]_vars

(* C13 witness: of the two primary calls of a file, one is in its second    *)
(* attempt after the first raised, the other has thrown the timeout of its  *)
(* last attempt.                                                            *)
C13_Witness ==
    \E f \in Files, m, n \in PrimarySet :
        /\ procs[f][m].st = "calling" /\ procs[f][m].attempt = 1
        /\ procs[f][m].raised = 1
        /\ procs[f][n].st = "thrown" /\ procs[f][n].err = "Generation timeout"

(* A reply that holds no entry analysis[metric]: no JSON, no JSON object,   *)
(* or an object without the key                                             *)
Keyless(reply, metric) == reply.json # "object" \/ metric \notin reply.keys

(* C14: a reply without the metric's entry does not make the attempt raise: *)
(* processMetric goes straight to its next attempt, or after the last one   *)
(* returns the fallback MetricResult; and a processMetric call none of      *)
(* whose attempts raised or gave the entry has made all maxAttempts service *)
(* calls and has returned the fallback MetricResult, without throwing.      *)
C14_KeylessFallback ==
    /\ [](\A f \in Files, m \in AllMetrics :
            LET p == procs[f][m] IN
            (Settled(p) /\ Ran(p) /\ p.raised = 0 /\ p.result # ServiceEntry(m))
                => /\ p.st = "returned"
                   /\ p.calls = p.retries
                   /\ p.result = GetFallbackMetric(m)
                   /\ p.err = "none")
    /\ [][\A f \in Files, m \in AllMetrics :
            LET p == procs[f][m]
                q == procs'[f][m]
            IN
            (p.st = "calling" /\ q # p)
                => \A reply \in Replies(m) :
                      (Keyless(reply, m) /\ q = OnResolve(p, m, reply))
                          => /\ q.raised = p.raised /\ q.err = "none"
                             /\ IF p.attempt < p.retries - 1
                                THEN q.st = "calling" /\ q.attempt = p.attempt + 1
                                ELSE /\ q.st = "returned"
                                     /\ q.result = GetFallbackMetric(m)
       ]_vars

(* C14 witness: a primary call returned the fallback after two service      *)
(* calls and a deep call after one, none of which raised.                   *)
C14_Witness ==
    \E f \in Files, m \in PrimarySet, g \in Files, d \in DeepSet :
        /\ procs[f][m].st = "returned" /\ procs[f][m].calls = 2
        /\ procs[f][m].raised = 0 /\ procs[f][m].result = GetFallbackMetric(m)
        /\ procs[g][d].st = "returned" /\ procs[g][d].calls = 1
        /\ procs[g][d].raised = 0 /\ procs[g][d].result = GetFallbackMetric(d)

(* C15: when the 10 s timer wins the race of an attempt, the attempt ends   *)
(* as a raised 'Generation timeout' (backoff and a further attempt, or the  *)
(* rethrow on the last attempt), no other processMetric call, result or     *)
(* response changes, and the service call stays in flight; when that call   *)
(* settles later, no processMetric call, no result, no error and no         *)
(* response changes.                                                        *)
C15_AbandonedCallIgnored ==
    [][/\ \A f \in Files, m \in AllMetrics :
            LET p == procs[f][m]
                q == procs'[f][m]
            IN
            (p.st = "calling" /\ q # p
                /\ \E settlesLater \in BOOLEAN : CallTimerFires(f, m, settlesLater))
                => /\ q.raised = p.raised + 1 /\ q.calls = p.calls
                   /\ q.st = IF p.attempt < p.retries - 1 THEN "backoff" ELSE "thrown"
                   /\ q.st = "thrown" => q.err = "Generation timeout"
                   /\ abandoned' >= abandoned
                   /\ \A g \in Files, n \in AllMetrics :
                         <<g, n>> # <<f, m>> => procs'[g][n] = procs[g][n]
                   /\ UNCHANGED <<pc, idx, results, errors, processReturn, response>>
       /\ abandoned' < abandoned
            => UNCHANGED <<pc, idx, procs, aggTimer, results, errors,
                           processReturn, response, reqTimer, current>>
      ]_vars

(* C15 witness: the batch response has been returned while a service call   *)
(* whose attempt ended in 'Generation timeout' is still in flight.          *)
C15_Witness ==
    /\ abandoned = 1
    /\ response.status = 200
    /\ \E f \in Files, m \in AllMetrics :
          procs[f][m].st = "thrown" /\ procs[f][m].err = "Generation timeout"

(* C16: the data text embedded in the prompt of an attempt is the first     *)
(* min(L, maxChunkSize) characters of the serialized document of length L:  *)
(* the first chunk, never longer than maxChunkSize, which truncateData      *)
(* leaves as it is, without the '...' suffix.                               *)
C16_FirstChunkOnly ==
    prompt # NoPrompt
        => /\ prompt = SubSeq(formattedData, 1,
                              Min(Len(formattedData), MaxChunkSize))
           /\ Len(prompt) <= MaxChunkSize
           /\ prompt = chunks[1]

(* C16 witness: a document of more than two chunks, whose prompt holds the  *)
(* first maxChunkSize characters.                                           *)
C16_Witness ==
    /\ prompt # NoPrompt
    /\ Len(formattedData) > 2 * MaxChunkSize
    /\ Len(chunks) = 3
    /\ Len(prompt) = MaxChunkSize

(* C17: processMetric waits in the backoff only after an attempt that       *)
(* raised with attempts remaining, issuing no service call on the way in    *)
(* and the next service call on the way out; a further service call is      *)
(* issued only at the end of a backoff or, at once, by an attempt that      *)
(* completed without raising; and an attempt that raised as the last one or *)
(* that completed without raising never leads to a backoff.                 *)
C17_BackoffOrdering ==
    [][\A f \in Files, m \in AllMetrics :
        LET p == procs[f][m]
            q == procs'[f][m]
        IN
        /\ (q.st = "backoff" /\ p.st # "backoff")
              => /\ p.st = "calling" /\ q.raised = p.raised + 1
                 /\ p.attempt < p.retries - 1
                 /\ q.calls = p.calls /\ q.attempt = p.attempt
        /\ (p.st = "backoff" /\ q # p)
              => /\ q.st = "calling" /\ q.calls = p.calls + 1
                 /\ q.raised = p.raised
        /\ (p.calls >= 1 /\ q.calls = p.calls + 1)
              => \/ p.st = "backoff"
                 \/ p.st = "calling" /\ q.raised = p.raised
        /\ (p.st = "calling" /\ q.raised = p.raised + 1
                /\ p.attempt = p.retries - 1)
              => q.st = "thrown"
        /\ (p.st = "calling" /\ q # p /\ q.raised = p.raised)
              => q.st \in {"calling", "returned"}
    ]_vars

(* C17 witness: one primary call waits in the backoff after its first       *)
(* attempt raised, the other is in its second attempt at once after a first *)
(* that did not raise.                                                      *)
C17_Witness ==
    \E f \in Files, m, n \in PrimarySet :
        /\ procs[f][m].st = "backoff" /\ procs[f][m].raised = 1
        /\ procs[f][m].calls = 1
        /\ procs[f][n].st = "calling" /\ procs[f][n].raised = 0
        /\ procs[f][n].calls = 2

(* The last entry of a results sequence *)
Last(seq) == seq[Len(seq)]

(* C18: as soon as one deep processMetric call of a file has thrown (its    *)
(* single attempt raised), the file is recorded with the primary results    *)
(* produced and the fallback MetricResult under every deep metric name; a   *)
(* deep metric whose own call returned or later returns the service's entry *)
(* has the fallback in the outcome all the same.                            *)
C18_AnyDeepRejectionFallsBack ==
    /\ [](\A f \in Files :
            (InResults(f) /\ \E d \in DeepSet : procs[f][d].st = "thrown")
                => /\ "deep" \in DOMAIN EntryOf(f).analytics
                   /\ \A e \in DeepSet :
                         /\ EntryOf(f).analytics.deep[e] = GetFallbackMetric(e)
                         /\ procs[f][e].st = "returned"
                               => procs[f][e].result
                                    \in {ServiceEntry(e), GetFallbackMetric(e)})
    /\ [][(pc = "deep" /\ Thrown(idx, DeepSet))
            => /\ Len(results') = Len(results) + 1
               /\ Last(results').file = idx
               /\ "deep" \in DOMAIN Last(results').analytics
               /\ Last(results').analytics.deep
                    = [e \in DeepSet |-> GetFallbackMetric(e)]
               /\ Last(results').analytics.primary = ResultsOf(idx, PrimarySet)
       ]_vars

(* C18 witness: a recorded file one of whose deep calls threw the service's *)
(* error while the other had returned the service's entry; the outcome      *)
(* holds the fallback for that one too.                                     *)
C18_Witness ==
    \E f \in Files, d, e \in DeepSet :
        /\ InResults(f)
        /\ procs[f][d].st = "thrown" /\ procs[f][d].err = "Service error"
        /\ procs[f][e].st = "returned" /\ procs[f][e].result = ServiceEntry(e)
        /\ "deep" \in DOMAIN EntryOf(f).analytics
        /\ EntryOf(f).analytics.deep[e] = GetFallbackMetric(e)

(* C19: a deep processMetric call of a file has been started, or the 15 s   *)
(* timer of its deep race set, only when every primary processMetric call   *)
(* of that file has returned; no primary call of a file is calling or in    *)
(* its backoff while a deep call of that file is calling.                   *)
C19_DeepAfterPrimary ==
    /\ \A f \in Files :
          (\E d \in DeepSet : procs[f][d].st # "idle")
              => \A m \in PrimarySet : procs[f][m].st \in {"returned", "collected"}
    /\ aggTimer => (pc = "deep" /\ Returned(idx, PrimarySet))
    /\ \A f \in Files :
          ~ /\ \E m \in PrimarySet : procs[f][m].st \in {"calling", "backoff"}
            /\ \E d \in DeepSet : procs[f][d].st = "calling"

(* C19 witness: the deep calls of a file are in flight with the 15 s timer  *)
(* pending; one primary metric had used both its attempts and returned the  *)
(* fallback, the other had returned the service's entry.                    *)
C19_Witness ==
    \E m, n \in PrimarySet :
        /\ pc = "deep" /\ aggTimer
        /\ \A d \in DeepSet : procs[idx][d].st = "calling"
        /\ procs[idx][m].result = GetFallbackMetric(m)
        /\ procs[idx][n].result = ServiceEntry(n)

(* C20: a deep processMetric call makes its single attempt and never waits  *)
(* in a backoff; the 15 s timer is never due while a deep call of the race  *)
(* is still unsettled; and the deep race is settled, the file recorded,     *)
(* only when every deep call has returned or one has thrown.                *)
C20_AggregateTimerNeverWins ==
    /\ [](/\ \A f \in Files, d \in DeepSet :
                procs[f][d].calls <= 1 /\ procs[f][d].st # "backoff"
          /\ (pc = "deep" /\ AggTimerDue)
                => (Returned(idx, DeepSet) \/ Thrown(idx, DeepSet)))
    /\ [][(pc = "deep" /\ (pc' # "deep" \/ aggTimer' # aggTimer))
            => (Returned(idx, DeepSet) \/ Thrown(idx, DeepSet))]_vars

(* C20 witness: a file was recorded with the deep fallback after the 10 s   *)
(* timer of one deep call rejected the race; the other deep call timed out  *)
(* after it.                                                                *)
C20_Witness ==
    \E f \in Files :
        /\ InResults(f)
        /\ ~aggTimer
        /\ \A d \in DeepSet :
              /\ procs[f][d].st = "thrown"
              /\ procs[f][d].err = "Generation timeout"

====
